---------------------------- MODULE Spec2Model ----------------------------
(***************************************************************************)
(* Backpack API: the feature-gate evaluator (FEATURES.ts), the GraphQL     *)
(* schema (schema.graphql) with its cache-control directives, and the      *)
(* connection (pagination) protocol the schema's Connection types follow.  *)
(***************************************************************************)
EXTENDS Integers, Sequences, FiniteSets

VARIABLES
    call,           \* the latest FEATURE_GATES call: its arguments and its result
    prevCall,       \* the call before it
    path,           \* the fields being resolved, root first, each with its
                    \* effective cache policy
    overall,        \* the response-level cache policy of the request so far
    touchedScopes,  \* the effective scopes of the fields resolved so far
    page            \* a paginate call: its arguments and, once made, its result

gateVars == <<call, prevCall>>
cacheVars == <<path, overall, touchedScopes>>
vars == <<call, prevCall, path, overall, touchedScopes, page>>

(***************************************************************************)
(* Bounds                                                                  *)
(***************************************************************************)
\* longest dropzoneUsers array drawn
MaxCohort == 2

\* longest item sequence paginated
MaxItems == 5

\* largest first / last drawn
MaxCap == 2

(***************************************************************************)
(* JavaScript values: undefined, strings, booleans                         *)
(***************************************************************************)
Undefined == [tag |-> "undefined"]

Str(s) == [tag |-> "string", s |-> s]

Bool(b) == [tag |-> "boolean", b |-> b]

\* ToBoolean: undefined and the empty string are falsy
ToBoolean(v) ==
    CASE v.tag = "undefined" -> FALSE
      [] v.tag = "string"    -> v.s # ""
      [] v.tag = "boolean"   -> v.b

\* a && b: the left operand when it is falsy, else the right one
LogicalAnd(a, b) == IF ToBoolean(a) THEN b ELSE a

\* Boolean(v)
Boolean(v) == Bool(ToBoolean(v))

\* Array.prototype.includes on an array of strings
Includes(arr, v) == Bool(\E i \in 1..Len(arr) : Str(arr[i]) = v)

(***************************************************************************)
(* FEATURE_GATES                                                           *)
(***************************************************************************)
\* DROPZONE_ENABLED with the Boolean() conversion left out
DropzoneEnabledUnconverted(dropzoneUsers, userId) ==
    LogicalAnd(userId, Includes(dropzoneUsers, userId))

\* DROPZONE_ENABLED: Boolean(userId && dropzoneUsers.includes(userId))
DropzoneEnabled(dropzoneUsers, userId) ==
    Boolean(LogicalAnd(userId, Includes(dropzoneUsers, userId)))

\* FEATURE_GATES with SWAP_FEES_ENABLED gated on the caller being identified
FEATURE_GATES_SwapFeesByUser(dropzoneUsers, userId) ==
    [ STRIPE_ENABLED         |-> Bool(TRUE),
      PRIMARY_PUBKEY_ENABLED |-> Bool(TRUE),
      SWAP_FEES_ENABLED      |-> Boolean(userId),
      DROPZONE_ENABLED       |-> DropzoneEnabled(dropzoneUsers, userId),
      STICKER_ENABLED        |-> Bool(TRUE),
      BARTER_ENABLED         |-> Bool(FALSE) ]

FEATURE_GATES(dropzoneUsers, userId) ==
    [ STRIPE_ENABLED         |-> Bool(TRUE),
      PRIMARY_PUBKEY_ENABLED |-> Bool(TRUE),
      SWAP_FEES_ENABLED      |-> Bool(FALSE),
      DROPZONE_ENABLED       |-> DropzoneEnabled(dropzoneUsers, userId),
      STICKER_ENABLED        |-> Bool(TRUE),
      BARTER_ENABLED         |-> Bool(FALSE) ]

\* the strings drawn as cohort members, the empty string among them
CohortStrings == {"", "u1", "u2"}

\* the strings drawn as user ids: the cohort's and one that is in no cohort
UserIdStrings == CohortStrings \cup {"u3"}

\* userId?: string
UserIds == {Undefined} \cup {Str(s) : s \in UserIdStrings}

\* dropzoneUsers: string[]
Cohorts == UNION {[1..n -> CohortStrings] : n \in 0..MaxCohort}

NoCall == [made |-> FALSE]

Evaluate(dropzoneUsers, userId) ==
    [ made          |-> TRUE,
      dropzoneUsers |-> dropzoneUsers,
      userId        |-> userId,
      flags         |-> FEATURE_GATES(dropzoneUsers, userId) ]

GatesInit ==
    /\ call = NoCall
    /\ prevCall = NoCall

CallFeatureGates ==
    \E dropzoneUsers \in Cohorts, userId \in UserIds :
        /\ call' = Evaluate(dropzoneUsers, userId)
        /\ prevCall' = call
        /\ UNCHANGED <<cacheVars, page>>

(***************************************************************************)
(* schema.graphql: the type definitions                                    *)
(***************************************************************************)
\* type Mutation (lines 23-52)
MutationFields ==
    {
      [ on |-> "Mutation", name |-> "authenticate",
        type |-> [named |-> "String", list |-> FALSE, nonNull |-> TRUE, itemNonNull |-> FALSE],
        cacheControl |-> [maxAge |-> {}, scope |-> {}, inheritMaxAge |-> {}] ],
      [ on |-> "Mutation", name |-> "deauthenticate",
        type |-> [named |-> "String", list |-> FALSE, nonNull |-> TRUE, itemNonNull |-> FALSE],
        cacheControl |-> [maxAge |-> {}, scope |-> {}, inheritMaxAge |-> {}] ],
      [ on |-> "Mutation", name |-> "importPublicKey",
        type |-> [named |-> "Boolean", list |-> FALSE, nonNull |-> FALSE, itemNonNull |-> FALSE],
        cacheControl |-> [maxAge |-> {}, scope |-> {}, inheritMaxAge |-> {}] ],
      [ on |-> "Mutation", name |-> "sendFriendRequest",
        type |-> [named |-> "Boolean", list |-> FALSE, nonNull |-> FALSE, itemNonNull |-> FALSE],
        cacheControl |-> [maxAge |-> {}, scope |-> {}, inheritMaxAge |-> {}] ] }

\* type Query with user lacking scope: PRIVATE
QueryFieldsUserPublic ==
    {
      [ on |-> "Query", name |-> "tokenList",
        type |-> [named |-> "TokenListEntry", list |-> TRUE, nonNull |-> TRUE, itemNonNull |-> FALSE],
        cacheControl |-> [maxAge |-> {600}, scope |-> {}, inheritMaxAge |-> {}] ],
      [ on |-> "Query", name |-> "user",
        type |-> [named |-> "User", list |-> FALSE, nonNull |-> FALSE, itemNonNull |-> FALSE],
        cacheControl |-> [maxAge |-> {60}, scope |-> {}, inheritMaxAge |-> {}] ],
      [ on |-> "Query", name |-> "wallet",
        type |-> [named |-> "Wallet", list |-> FALSE, nonNull |-> FALSE, itemNonNull |-> FALSE],
        cacheControl |-> [maxAge |-> {60}, scope |-> {}, inheritMaxAge |-> {}] ] }

\* type Query (lines 57-80)
QueryFields ==
    {
      [ on |-> "Query", name |-> "tokenList",
        type |-> [named |-> "TokenListEntry", list |-> TRUE, nonNull |-> TRUE, itemNonNull |-> FALSE],
        cacheControl |-> [maxAge |-> {600}, scope |-> {}, inheritMaxAge |-> {}] ],
      [ on |-> "Query", name |-> "user",
        type |-> [named |-> "User", list |-> FALSE, nonNull |-> FALSE, itemNonNull |-> FALSE],
        cacheControl |-> [maxAge |-> {60}, scope |-> {"PRIVATE"}, inheritMaxAge |-> {}] ],
      [ on |-> "Query", name |-> "wallet",
        type |-> [named |-> "Wallet", list |-> FALSE, nonNull |-> FALSE, itemNonNull |-> FALSE],
        cacheControl |-> [maxAge |-> {60}, scope |-> {}, inheritMaxAge |-> {}] ] }

\* interface Node (lines 217-222)
NodeFields ==
    {
      [ on |-> "Node", name |-> "id",
        type |-> [named |-> "ID", list |-> FALSE, nonNull |-> TRUE, itemNonNull |-> FALSE],
        cacheControl |-> [maxAge |-> {}, scope |-> {}, inheritMaxAge |-> {}] ] }

\* type PageInfo (lines 227-247)
PageInfoFields ==
    {
      [ on |-> "PageInfo", name |-> "hasNextPage",
        type |-> [named |-> "Boolean", list |-> FALSE, nonNull |-> TRUE, itemNonNull |-> FALSE],
        cacheControl |-> [maxAge |-> {}, scope |-> {}, inheritMaxAge |-> {}] ],
      [ on |-> "PageInfo", name |-> "hasPreviousPage",
        type |-> [named |-> "Boolean", list |-> FALSE, nonNull |-> TRUE, itemNonNull |-> FALSE],
        cacheControl |-> [maxAge |-> {}, scope |-> {}, inheritMaxAge |-> {}] ],
      [ on |-> "PageInfo", name |-> "startCursor",
        type |-> [named |-> "String", list |-> FALSE, nonNull |-> FALSE, itemNonNull |-> FALSE],
        cacheControl |-> [maxAge |-> {}, scope |-> {}, inheritMaxAge |-> {}] ],
      [ on |-> "PageInfo", name |-> "endCursor",
        type |-> [named |-> "String", list |-> FALSE, nonNull |-> FALSE, itemNonNull |-> FALSE],
        cacheControl |-> [maxAge |-> {}, scope |-> {}, inheritMaxAge |-> {}] ] }

\* type Balances with tokens lacking inheritMaxAge: true
BalancesFieldsTokensNoInherit ==
    {
      [ on |-> "Balances", name |-> "id",
        type |-> [named |-> "ID", list |-> FALSE, nonNull |-> TRUE, itemNonNull |-> FALSE],
        cacheControl |-> [maxAge |-> {}, scope |-> {}, inheritMaxAge |-> {}] ],
      [ on |-> "Balances", name |-> "aggregate",
        type |-> [named |-> "BalanceAggregate", list |-> FALSE, nonNull |-> TRUE, itemNonNull |-> FALSE],
        cacheControl |-> [maxAge |-> {}, scope |-> {}, inheritMaxAge |-> {}] ],
      [ on |-> "Balances", name |-> "tokens",
        type |-> [named |-> "TokenBalanceConnection", list |-> FALSE, nonNull |-> FALSE, itemNonNull |-> FALSE],
        cacheControl |-> [maxAge |-> {}, scope |-> {}, inheritMaxAge |-> {}] ] }

\* type Balances (lines 253-268)
BalancesFields ==
    {
      [ on |-> "Balances", name |-> "id",
        type |-> [named |-> "ID", list |-> FALSE, nonNull |-> TRUE, itemNonNull |-> FALSE],
        cacheControl |-> [maxAge |-> {}, scope |-> {}, inheritMaxAge |-> {}] ],
      [ on |-> "Balances", name |-> "aggregate",
        type |-> [named |-> "BalanceAggregate", list |-> FALSE, nonNull |-> TRUE, itemNonNull |-> FALSE],
        cacheControl |-> [maxAge |-> {}, scope |-> {}, inheritMaxAge |-> {}] ],
      [ on |-> "Balances", name |-> "tokens",
        type |-> [named |-> "TokenBalanceConnection", list |-> FALSE, nonNull |-> FALSE, itemNonNull |-> FALSE],
        cacheControl |-> [maxAge |-> {}, scope |-> {}, inheritMaxAge |-> {TRUE}] ] }

\* type BalanceAggregate (lines 273-293)
BalanceAggregateFields ==
    {
      [ on |-> "BalanceAggregate", name |-> "id",
        type |-> [named |-> "ID", list |-> FALSE, nonNull |-> TRUE, itemNonNull |-> FALSE],
        cacheControl |-> [maxAge |-> {}, scope |-> {}, inheritMaxAge |-> {}] ],
      [ on |-> "BalanceAggregate", name |-> "percentChange",
        type |-> [named |-> "Float", list |-> FALSE, nonNull |-> TRUE, itemNonNull |-> FALSE],
        cacheControl |-> [maxAge |-> {}, scope |-> {}, inheritMaxAge |-> {}] ],
      [ on |-> "BalanceAggregate", name |-> "value",
        type |-> [named |-> "Float", list |-> FALSE, nonNull |-> TRUE, itemNonNull |-> FALSE],
        cacheControl |-> [maxAge |-> {}, scope |-> {}, inheritMaxAge |-> {}] ],
      [ on |-> "BalanceAggregate", name |-> "valueChange",
        type |-> [named |-> "Float", list |-> FALSE, nonNull |-> TRUE, itemNonNull |-> FALSE],
        cacheControl |-> [maxAge |-> {}, scope |-> {}, inheritMaxAge |-> {}] ] }

\* type Collection (lines 298-323)
CollectionFields ==
    {
      [ on |-> "Collection", name |-> "id",
        type |-> [named |-> "ID", list |-> FALSE, nonNull |-> TRUE, itemNonNull |-> FALSE],
        cacheControl |-> [maxAge |-> {}, scope |-> {}, inheritMaxAge |-> {}] ],
      [ on |-> "Collection", name |-> "address",
        type |-> [named |-> "String", list |-> FALSE, nonNull |-> TRUE, itemNonNull |-> FALSE],
        cacheControl |-> [maxAge |-> {}, scope |-> {}, inheritMaxAge |-> {}] ],
      [ on |-> "Collection", name |-> "image",
        type |-> [named |-> "String", list |-> FALSE, nonNull |-> FALSE, itemNonNull |-> FALSE],
        cacheControl |-> [maxAge |-> {}, scope |-> {}, inheritMaxAge |-> {}] ],
      [ on |-> "Collection", name |-> "name",
        type |-> [named |-> "String", list |-> FALSE, nonNull |-> FALSE, itemNonNull |-> FALSE],
        cacheControl |-> [maxAge |-> {}, scope |-> {}, inheritMaxAge |-> {}] ],
      [ on |-> "Collection", name |-> "verified",
        type |-> [named |-> "Boolean", list |-> FALSE, nonNull |-> TRUE, itemNonNull |-> FALSE],
        cacheControl |-> [maxAge |-> {}, scope |-> {}, inheritMaxAge |-> {}] ] }

\* type Friend (lines 328-343)
FriendFields ==
    {
      [ on |-> "Friend", name |-> "id",
        type |-> [named |-> "ID", list |-> FALSE, nonNull |-> TRUE, itemNonNull |-> FALSE],
        cacheControl |-> [maxAge |-> {}, scope |-> {}, inheritMaxAge |-> {}] ],
      [ on |-> "Friend", name |-> "avatar",
        type |-> [named |-> "String", list |-> FALSE, nonNull |-> TRUE, itemNonNull |-> FALSE],
        cacheControl |-> [maxAge |-> {}, scope |-> {}, inheritMaxAge |-> {}] ],
      [ on |-> "Friend", name |-> "username",
        type |-> [named |-> "String", list |-> FALSE, nonNull |-> TRUE, itemNonNull |-> FALSE],
        cacheControl |-> [maxAge |-> {}, scope |-> {}, inheritMaxAge |-> {}] ] }

\* type FriendRequest (lines 348-363)
FriendRequestFields ==
    {
      [ on |-> "FriendRequest", name |-> "id",
        type |-> [named |-> "ID", list |-> FALSE, nonNull |-> TRUE, itemNonNull |-> FALSE],
        cacheControl |-> [maxAge |-> {}, scope |-> {}, inheritMaxAge |-> {}] ],
      [ on |-> "FriendRequest", name |-> "type",
        type |-> [named |-> "FriendRequestType", list |-> FALSE, nonNull |-> TRUE, itemNonNull |-> FALSE],
        cacheControl |-> [maxAge |-> {}, scope |-> {}, inheritMaxAge |-> {}] ],
      [ on |-> "FriendRequest", name |-> "userId",
        type |-> [named |-> "String", list |-> FALSE, nonNull |-> TRUE, itemNonNull |-> FALSE],
        cacheControl |-> [maxAge |-> {}, scope |-> {}, inheritMaxAge |-> {}] ] }

\* type Friendship (lines 368-378)
FriendshipFields ==
    {
      [ on |-> "Friendship", name |-> "friends",
        type |-> [named |-> "Friend", list |-> TRUE, nonNull |-> FALSE, itemNonNull |-> TRUE],
        cacheControl |-> [maxAge |-> {60}, scope |-> {"PRIVATE"}, inheritMaxAge |-> {}] ],
      [ on |-> "Friendship", name |-> "requests",
        type |-> [named |-> "FriendRequest", list |-> TRUE, nonNull |-> FALSE, itemNonNull |-> TRUE],
        cacheControl |-> [maxAge |-> {60}, scope |-> {"PRIVATE"}, inheritMaxAge |-> {}] ] }

\* type Listing (lines 383-403)
ListingFields ==
    {
      [ on |-> "Listing", name |-> "id",
        type |-> [named |-> "ID", list |-> FALSE, nonNull |-> TRUE, itemNonNull |-> FALSE],
        cacheControl |-> [maxAge |-> {}, scope |-> {}, inheritMaxAge |-> {}] ],
      [ on |-> "Listing", name |-> "amount",
        type |-> [named |-> "String", list |-> FALSE, nonNull |-> TRUE, itemNonNull |-> FALSE],
        cacheControl |-> [maxAge |-> {}, scope |-> {}, inheritMaxAge |-> {}] ],
      [ on |-> "Listing", name |-> "source",
        type |-> [named |-> "String", list |-> FALSE, nonNull |-> TRUE, itemNonNull |-> FALSE],
        cacheControl |-> [maxAge |-> {}, scope |-> {}, inheritMaxAge |-> {}] ],
      [ on |-> "Listing", name |-> "url",
        type |-> [named |-> "String", list |-> FALSE, nonNull |-> TRUE, itemNonNull |-> FALSE],
        cacheControl |-> [maxAge |-> {}, scope |-> {}, inheritMaxAge |-> {}] ] }

\* type MarketData (lines 408-448)
MarketDataFields ==
    {
      [ on |-> "MarketData", name |-> "id",
        type |-> [named |-> "ID", list |-> FALSE, nonNull |-> TRUE, itemNonNull |-> FALSE],
        cacheControl |-> [maxAge |-> {}, scope |-> {}, inheritMaxAge |-> {}] ],
      [ on |-> "MarketData", name |-> "lastUpdatedAt",
        type |-> [named |-> "String", list |-> FALSE, nonNull |-> TRUE, itemNonNull |-> FALSE],
        cacheControl |-> [maxAge |-> {}, scope |-> {}, inheritMaxAge |-> {}] ],
      [ on |-> "MarketData", name |-> "percentChange",
        type |-> [named |-> "Float", list |-> FALSE, nonNull |-> TRUE, itemNonNull |-> FALSE],
        cacheControl |-> [maxAge |-> {}, scope |-> {}, inheritMaxAge |-> {}] ],
      [ on |-> "MarketData", name |-> "price",
        type |-> [named |-> "Float", list |-> FALSE, nonNull |-> TRUE, itemNonNull |-> FALSE],
        cacheControl |-> [maxAge |-> {}, scope |-> {}, inheritMaxAge |-> {}] ],
      [ on |-> "MarketData", name |-> "sparkline",
        type |-> [named |-> "Float", list |-> TRUE, nonNull |-> TRUE, itemNonNull |-> TRUE],
        cacheControl |-> [maxAge |-> {}, scope |-> {}, inheritMaxAge |-> {}] ],
      [ on |-> "MarketData", name |-> "usdChange",
        type |-> [named |-> "Float", list |-> FALSE, nonNull |-> TRUE, itemNonNull |-> FALSE],
        cacheControl |-> [maxAge |-> {}, scope |-> {}, inheritMaxAge |-> {}] ],
      [ on |-> "MarketData", name |-> "value",
        type |-> [named |-> "Float", list |-> FALSE, nonNull |-> TRUE, itemNonNull |-> FALSE],
        cacheControl |-> [maxAge |-> {}, scope |-> {}, inheritMaxAge |-> {}] ],
      [ on |-> "MarketData", name |-> "valueChange",
        type |-> [named |-> "Float", list |-> FALSE, nonNull |-> TRUE, itemNonNull |-> FALSE],
        cacheControl |-> [maxAge |-> {}, scope |-> {}, inheritMaxAge |-> {}] ] }

\* type Nft (lines 453-513)
NftFields ==
    {
      [ on |-> "Nft", name |-> "id",
        type |-> [named |-> "ID", list |-> FALSE, nonNull |-> TRUE, itemNonNull |-> FALSE],
        cacheControl |-> [maxAge |-> {}, scope |-> {}, inheritMaxAge |-> {}] ],
      [ on |-> "Nft", name |-> "address",
        type |-> [named |-> "String", list |-> FALSE, nonNull |-> TRUE, itemNonNull |-> FALSE],
        cacheControl |-> [maxAge |-> {}, scope |-> {}, inheritMaxAge |-> {}] ],
      [ on |-> "Nft", name |-> "attributes",
        type |-> [named |-> "NftAttribute", list |-> TRUE, nonNull |-> FALSE, itemNonNull |-> TRUE],
        cacheControl |-> [maxAge |-> {}, scope |-> {}, inheritMaxAge |-> {TRUE}] ],
      [ on |-> "Nft", name |-> "collection",
        type |-> [named |-> "Collection", list |-> FALSE, nonNull |-> FALSE, itemNonNull |-> FALSE],
        cacheControl |-> [maxAge |-> {}, scope |-> {}, inheritMaxAge |-> {TRUE}] ],
      [ on |-> "Nft", name |-> "compressed",
        type |-> [named |-> "Boolean", list |-> FALSE, nonNull |-> TRUE, itemNonNull |-> FALSE],
        cacheControl |-> [maxAge |-> {}, scope |-> {}, inheritMaxAge |-> {}] ],
      [ on |-> "Nft", name |-> "description",
        type |-> [named |-> "String", list |-> FALSE, nonNull |-> FALSE, itemNonNull |-> FALSE],
        cacheControl |-> [maxAge |-> {}, scope |-> {}, inheritMaxAge |-> {}] ],
      [ on |-> "Nft", name |-> "image",
        type |-> [named |-> "String", list |-> FALSE, nonNull |-> FALSE, itemNonNull |-> FALSE],
        cacheControl |-> [maxAge |-> {}, scope |-> {}, inheritMaxAge |-> {}] ],
      [ on |-> "Nft", name |-> "listing",
        type |-> [named |-> "Listing", list |-> FALSE, nonNull |-> FALSE, itemNonNull |-> FALSE],
        cacheControl |-> [maxAge |-> {60}, scope |-> {}, inheritMaxAge |-> {}] ],
      [ on |-> "Nft", name |-> "metadataUri",
        type |-> [named |-> "String", list |-> FALSE, nonNull |-> FALSE, itemNonNull |-> FALSE],
        cacheControl |-> [maxAge |-> {}, scope |-> {}, inheritMaxAge |-> {}] ],
      [ on |-> "Nft", name |-> "name",
        type |-> [named |-> "String", list |-> FALSE, nonNull |-> FALSE, itemNonNull |-> FALSE],
        cacheControl |-> [maxAge |-> {}, scope |-> {}, inheritMaxAge |-> {}] ],
      [ on |-> "Nft", name |-> "owner",
        type |-> [named |-> "String", list |-> FALSE, nonNull |-> TRUE, itemNonNull |-> FALSE],
        cacheControl |-> [maxAge |-> {}, scope |-> {}, inheritMaxAge |-> {}] ],
      [ on |-> "Nft", name |-> "token",
        type |-> [named |-> "String", list |-> FALSE, nonNull |-> TRUE, itemNonNull |-> FALSE],
        cacheControl |-> [maxAge |-> {}, scope |-> {}, inheritMaxAge |-> {}] ] }

\* type NftAttribute (lines 518-528)
NftAttributeFields ==
    {
      [ on |-> "NftAttribute", name |-> "trait",
        type |-> [named |-> "String", list |-> FALSE, nonNull |-> TRUE, itemNonNull |-> FALSE],
        cacheControl |-> [maxAge |-> {}, scope |-> {}, inheritMaxAge |-> {}] ],
      [ on |-> "NftAttribute", name |-> "value",
        type |-> [named |-> "String", list |-> FALSE, nonNull |-> TRUE, itemNonNull |-> FALSE],
        cacheControl |-> [maxAge |-> {}, scope |-> {}, inheritMaxAge |-> {}] ] }

\* type NftConnection (lines 533-536)
NftConnectionFields ==
    {
      [ on |-> "NftConnection", name |-> "edges",
        type |-> [named |-> "NftEdge", list |-> TRUE, nonNull |-> TRUE, itemNonNull |-> TRUE],
        cacheControl |-> [maxAge |-> {}, scope |-> {}, inheritMaxAge |-> {}] ],
      [ on |-> "NftConnection", name |-> "pageInfo",
        type |-> [named |-> "PageInfo", list |-> FALSE, nonNull |-> TRUE, itemNonNull |-> FALSE],
        cacheControl |-> [maxAge |-> {}, scope |-> {}, inheritMaxAge |-> {}] ] }

\* type NftEdge (lines 541-544)
NftEdgeFields ==
    {
      [ on |-> "NftEdge", name |-> "cursor",
        type |-> [named |-> "String", list |-> FALSE, nonNull |-> TRUE, itemNonNull |-> FALSE],
        cacheControl |-> [maxAge |-> {}, scope |-> {}, inheritMaxAge |-> {}] ],
      [ on |-> "NftEdge", name |-> "node",
        type |-> [named |-> "Nft", list |-> FALSE, nonNull |-> TRUE, itemNonNull |-> FALSE],
        cacheControl |-> [maxAge |-> {}, scope |-> {}, inheritMaxAge |-> {}] ] }

\* type Notification (lines 549-584)
NotificationFields ==
    {
      [ on |-> "Notification", name |-> "id",
        type |-> [named |-> "ID", list |-> FALSE, nonNull |-> TRUE, itemNonNull |-> FALSE],
        cacheControl |-> [maxAge |-> {}, scope |-> {}, inheritMaxAge |-> {}] ],
      [ on |-> "Notification", name |-> "app",
        type |-> [named |-> "NotificationApplicationData", list |-> FALSE, nonNull |-> FALSE, itemNonNull |-> FALSE],
        cacheControl |-> [maxAge |-> {180}, scope |-> {}, inheritMaxAge |-> {}] ],
      [ on |-> "Notification", name |-> "body",
        type |-> [named |-> "JSONObject", list |-> FALSE, nonNull |-> TRUE, itemNonNull |-> FALSE],
        cacheControl |-> [maxAge |-> {}, scope |-> {}, inheritMaxAge |-> {}] ],
      [ on |-> "Notification", name |-> "source",
        type |-> [named |-> "String", list |-> FALSE, nonNull |-> TRUE, itemNonNull |-> FALSE],
        cacheControl |-> [maxAge |-> {}, scope |-> {}, inheritMaxAge |-> {}] ],
      [ on |-> "Notification", name |-> "timestamp",
        type |-> [named |-> "String", list |-> FALSE, nonNull |-> TRUE, itemNonNull |-> FALSE],
        cacheControl |-> [maxAge |-> {}, scope |-> {}, inheritMaxAge |-> {}] ],
      [ on |-> "Notification", name |-> "title",
        type |-> [named |-> "String", list |-> FALSE, nonNull |-> TRUE, itemNonNull |-> FALSE],
        cacheControl |-> [maxAge |-> {}, scope |-> {}, inheritMaxAge |-> {}] ],
      [ on |-> "Notification", name |-> "viewed",
        type |-> [named |-> "Boolean", list |-> FALSE, nonNull |-> TRUE, itemNonNull |-> FALSE],
        cacheControl |-> [maxAge |-> {}, scope |-> {}, inheritMaxAge |-> {}] ] }

\* type NotificationApplicationData without its id field
NotificationApplicationDataFieldsNoId ==
    {
      [ on |-> "NotificationApplicationData", name |-> "image",
        type |-> [named |-> "String", list |-> FALSE, nonNull |-> TRUE, itemNonNull |-> FALSE],
        cacheControl |-> [maxAge |-> {}, scope |-> {}, inheritMaxAge |-> {}] ],
      [ on |-> "NotificationApplicationData", name |-> "name",
        type |-> [named |-> "String", list |-> FALSE, nonNull |-> TRUE, itemNonNull |-> FALSE],
        cacheControl |-> [maxAge |-> {}, scope |-> {}, inheritMaxAge |-> {}] ] }

\* type NotificationApplicationData (lines 586-601)
NotificationApplicationDataFields ==
    {
      [ on |-> "NotificationApplicationData", name |-> "id",
        type |-> [named |-> "ID", list |-> FALSE, nonNull |-> TRUE, itemNonNull |-> FALSE],
        cacheControl |-> [maxAge |-> {}, scope |-> {}, inheritMaxAge |-> {}] ],
      [ on |-> "NotificationApplicationData", name |-> "image",
        type |-> [named |-> "String", list |-> FALSE, nonNull |-> TRUE, itemNonNull |-> FALSE],
        cacheControl |-> [maxAge |-> {}, scope |-> {}, inheritMaxAge |-> {}] ],
      [ on |-> "NotificationApplicationData", name |-> "name",
        type |-> [named |-> "String", list |-> FALSE, nonNull |-> TRUE, itemNonNull |-> FALSE],
        cacheControl |-> [maxAge |-> {}, scope |-> {}, inheritMaxAge |-> {}] ] }

\* type NotificationConnection (lines 606-613)
NotificationConnectionFields ==
    {
      [ on |-> "NotificationConnection", name |-> "lastReadId",
        type |-> [named |-> "Int", list |-> FALSE, nonNull |-> FALSE, itemNonNull |-> FALSE],
        cacheControl |-> [maxAge |-> {}, scope |-> {}, inheritMaxAge |-> {}] ],
      [ on |-> "NotificationConnection", name |-> "edges",
        type |-> [named |-> "NotificationEdge", list |-> TRUE, nonNull |-> TRUE, itemNonNull |-> TRUE],
        cacheControl |-> [maxAge |-> {}, scope |-> {}, inheritMaxAge |-> {}] ],
      [ on |-> "NotificationConnection", name |-> "pageInfo",
        type |-> [named |-> "PageInfo", list |-> FALSE, nonNull |-> TRUE, itemNonNull |-> FALSE],
        cacheControl |-> [maxAge |-> {}, scope |-> {}, inheritMaxAge |-> {}] ] }

\* type NotificationEdge (lines 618-621)
NotificationEdgeFields ==
    {
      [ on |-> "NotificationEdge", name |-> "cursor",
        type |-> [named |-> "String", list |-> FALSE, nonNull |-> TRUE, itemNonNull |-> FALSE],
        cacheControl |-> [maxAge |-> {}, scope |-> {}, inheritMaxAge |-> {}] ],
      [ on |-> "NotificationEdge", name |-> "node",
        type |-> [named |-> "Notification", list |-> FALSE, nonNull |-> TRUE, itemNonNull |-> FALSE],
        cacheControl |-> [maxAge |-> {}, scope |-> {}, inheritMaxAge |-> {}] ] }

\* type TokenBalance (lines 626-666)
TokenBalanceFields ==
    {
      [ on |-> "TokenBalance", name |-> "id",
        type |-> [named |-> "ID", list |-> FALSE, nonNull |-> TRUE, itemNonNull |-> FALSE],
        cacheControl |-> [maxAge |-> {}, scope |-> {}, inheritMaxAge |-> {}] ],
      [ on |-> "TokenBalance", name |-> "address",
        type |-> [named |-> "String", list |-> FALSE, nonNull |-> TRUE, itemNonNull |-> FALSE],
        cacheControl |-> [maxAge |-> {}, scope |-> {}, inheritMaxAge |-> {}] ],
      [ on |-> "TokenBalance", name |-> "amount",
        type |-> [named |-> "String", list |-> FALSE, nonNull |-> TRUE, itemNonNull |-> FALSE],
        cacheControl |-> [maxAge |-> {}, scope |-> {}, inheritMaxAge |-> {}] ],
      [ on |-> "TokenBalance", name |-> "decimals",
        type |-> [named |-> "Int", list |-> FALSE, nonNull |-> TRUE, itemNonNull |-> FALSE],
        cacheControl |-> [maxAge |-> {}, scope |-> {}, inheritMaxAge |-> {}] ],
      [ on |-> "TokenBalance", name |-> "displayAmount",
        type |-> [named |-> "String", list |-> FALSE, nonNull |-> TRUE, itemNonNull |-> FALSE],
        cacheControl |-> [maxAge |-> {}, scope |-> {}, inheritMaxAge |-> {}] ],
      [ on |-> "TokenBalance", name |-> "marketData",
        type |-> [named |-> "MarketData", list |-> FALSE, nonNull |-> FALSE, itemNonNull |-> FALSE],
        cacheControl |-> [maxAge |-> {180}, scope |-> {}, inheritMaxAge |-> {}] ],
      [ on |-> "TokenBalance", name |-> "token",
        type |-> [named |-> "String", list |-> FALSE, nonNull |-> TRUE, itemNonNull |-> FALSE],
        cacheControl |-> [maxAge |-> {}, scope |-> {}, inheritMaxAge |-> {}] ],
      [ on |-> "TokenBalance", name |-> "tokenListEntry",
        type |-> [named |-> "TokenListEntry", list |-> FALSE, nonNull |-> FALSE, itemNonNull |-> FALSE],
        cacheControl |-> [maxAge |-> {}, scope |-> {}, inheritMaxAge |-> {}] ] }

\* type TokenBalanceConnection (lines 671-674)
TokenBalanceConnectionFields ==
    {
      [ on |-> "TokenBalanceConnection", name |-> "edges",
        type |-> [named |-> "TokenBalanceEdge", list |-> TRUE, nonNull |-> TRUE, itemNonNull |-> TRUE],
        cacheControl |-> [maxAge |-> {}, scope |-> {}, inheritMaxAge |-> {}] ],
      [ on |-> "TokenBalanceConnection", name |-> "pageInfo",
        type |-> [named |-> "PageInfo", list |-> FALSE, nonNull |-> TRUE, itemNonNull |-> FALSE],
        cacheControl |-> [maxAge |-> {}, scope |-> {}, inheritMaxAge |-> {}] ] }

\* type TokenBalanceEdge (lines 679-682)
TokenBalanceEdgeFields ==
    {
      [ on |-> "TokenBalanceEdge", name |-> "cursor",
        type |-> [named |-> "String", list |-> FALSE, nonNull |-> TRUE, itemNonNull |-> FALSE],
        cacheControl |-> [maxAge |-> {}, scope |-> {}, inheritMaxAge |-> {}] ],
      [ on |-> "TokenBalanceEdge", name |-> "node",
        type |-> [named |-> "TokenBalance", list |-> FALSE, nonNull |-> TRUE, itemNonNull |-> FALSE],
        cacheControl |-> [maxAge |-> {}, scope |-> {}, inheritMaxAge |-> {}] ] }

\* type TokenListEntry (lines 684-714)
TokenListEntryFields ==
    {
      [ on |-> "TokenListEntry", name |-> "id",
        type |-> [named |-> "ID", list |-> FALSE, nonNull |-> TRUE, itemNonNull |-> FALSE],
        cacheControl |-> [maxAge |-> {}, scope |-> {}, inheritMaxAge |-> {}] ],
      [ on |-> "TokenListEntry", name |-> "address",
        type |-> [named |-> "String", list |-> FALSE, nonNull |-> TRUE, itemNonNull |-> FALSE],
        cacheControl |-> [maxAge |-> {}, scope |-> {}, inheritMaxAge |-> {}] ],
      [ on |-> "TokenListEntry", name |-> "coingeckoId",
        type |-> [named |-> "String", list |-> FALSE, nonNull |-> FALSE, itemNonNull |-> FALSE],
        cacheControl |-> [maxAge |-> {}, scope |-> {}, inheritMaxAge |-> {}] ],
      [ on |-> "TokenListEntry", name |-> "logo",
        type |-> [named |-> "String", list |-> FALSE, nonNull |-> FALSE, itemNonNull |-> FALSE],
        cacheControl |-> [maxAge |-> {}, scope |-> {}, inheritMaxAge |-> {}] ],
      [ on |-> "TokenListEntry", name |-> "name",
        type |-> [named |-> "String", list |-> FALSE, nonNull |-> TRUE, itemNonNull |-> FALSE],
        cacheControl |-> [maxAge |-> {}, scope |-> {}, inheritMaxAge |-> {}] ],
      [ on |-> "TokenListEntry", name |-> "symbol",
        type |-> [named |-> "String", list |-> FALSE, nonNull |-> TRUE, itemNonNull |-> FALSE],
        cacheControl |-> [maxAge |-> {}, scope |-> {}, inheritMaxAge |-> {}] ] }

\* type Transaction (lines 719-779)
TransactionFields ==
    {
      [ on |-> "Transaction", name |-> "id",
        type |-> [named |-> "ID", list |-> FALSE, nonNull |-> TRUE, itemNonNull |-> FALSE],
        cacheControl |-> [maxAge |-> {}, scope |-> {}, inheritMaxAge |-> {}] ],
      [ on |-> "Transaction", name |-> "description",
        type |-> [named |-> "String", list |-> FALSE, nonNull |-> FALSE, itemNonNull |-> FALSE],
        cacheControl |-> [maxAge |-> {}, scope |-> {}, inheritMaxAge |-> {}] ],
      [ on |-> "Transaction", name |-> "block",
        type |-> [named |-> "Float", list |-> FALSE, nonNull |-> TRUE, itemNonNull |-> FALSE],
        cacheControl |-> [maxAge |-> {}, scope |-> {}, inheritMaxAge |-> {}] ],
      [ on |-> "Transaction", name |-> "error",
        type |-> [named |-> "String", list |-> FALSE, nonNull |-> FALSE, itemNonNull |-> FALSE],
        cacheControl |-> [maxAge |-> {}, scope |-> {}, inheritMaxAge |-> {}] ],
      [ on |-> "Transaction", name |-> "fee",
        type |-> [named |-> "String", list |-> FALSE, nonNull |-> FALSE, itemNonNull |-> FALSE],
        cacheControl |-> [maxAge |-> {}, scope |-> {}, inheritMaxAge |-> {}] ],
      [ on |-> "Transaction", name |-> "feePayer",
        type |-> [named |-> "String", list |-> FALSE, nonNull |-> FALSE, itemNonNull |-> FALSE],
        cacheControl |-> [maxAge |-> {}, scope |-> {}, inheritMaxAge |-> {}] ],
      [ on |-> "Transaction", name |-> "hash",
        type |-> [named |-> "String", list |-> FALSE, nonNull |-> TRUE, itemNonNull |-> FALSE],
        cacheControl |-> [maxAge |-> {}, scope |-> {}, inheritMaxAge |-> {}] ],
      [ on |-> "Transaction", name |-> "nfts",
        type |-> [named |-> "String", list |-> TRUE, nonNull |-> FALSE, itemNonNull |-> FALSE],
        cacheControl |-> [maxAge |-> {}, scope |-> {}, inheritMaxAge |-> {}] ],
      [ on |-> "Transaction", name |-> "raw",
        type |-> [named |-> "JSONObject", list |-> FALSE, nonNull |-> TRUE, itemNonNull |-> FALSE],
        cacheControl |-> [maxAge |-> {}, scope |-> {}, inheritMaxAge |-> {}] ],
      [ on |-> "Transaction", name |-> "source",
        type |-> [named |-> "String", list |-> FALSE, nonNull |-> FALSE, itemNonNull |-> FALSE],
        cacheControl |-> [maxAge |-> {}, scope |-> {}, inheritMaxAge |-> {}] ],
      [ on |-> "Transaction", name |-> "timestamp",
        type |-> [named |-> "String", list |-> FALSE, nonNull |-> TRUE, itemNonNull |-> FALSE],
        cacheControl |-> [maxAge |-> {}, scope |-> {}, inheritMaxAge |-> {}] ],
      [ on |-> "Transaction", name |-> "type",
        type |-> [named |-> "String", list |-> FALSE, nonNull |-> TRUE, itemNonNull |-> FALSE],
        cacheControl |-> [maxAge |-> {}, scope |-> {}, inheritMaxAge |-> {}] ] }

\* type TransactionConnection (lines 784-787)
TransactionConnectionFields ==
    {
      [ on |-> "TransactionConnection", name |-> "edges",
        type |-> [named |-> "TransactionEdge", list |-> TRUE, nonNull |-> TRUE, itemNonNull |-> TRUE],
        cacheControl |-> [maxAge |-> {}, scope |-> {}, inheritMaxAge |-> {}] ],
      [ on |-> "TransactionConnection", name |-> "pageInfo",
        type |-> [named |-> "PageInfo", list |-> FALSE, nonNull |-> TRUE, itemNonNull |-> FALSE],
        cacheControl |-> [maxAge |-> {}, scope |-> {}, inheritMaxAge |-> {}] ] }

\* type TransactionEdge (lines 792-795)
TransactionEdgeFields ==
    {
      [ on |-> "TransactionEdge", name |-> "cursor",
        type |-> [named |-> "String", list |-> FALSE, nonNull |-> TRUE, itemNonNull |-> FALSE],
        cacheControl |-> [maxAge |-> {}, scope |-> {}, inheritMaxAge |-> {}] ],
      [ on |-> "TransactionEdge", name |-> "node",
        type |-> [named |-> "Transaction", list |-> FALSE, nonNull |-> TRUE, itemNonNull |-> FALSE],
        cacheControl |-> [maxAge |-> {}, scope |-> {}, inheritMaxAge |-> {}] ] }

\* type User (lines 801-848)
UserFields ==
    {
      [ on |-> "User", name |-> "id",
        type |-> [named |-> "ID", list |-> FALSE, nonNull |-> TRUE, itemNonNull |-> FALSE],
        cacheControl |-> [maxAge |-> {}, scope |-> {}, inheritMaxAge |-> {}] ],
      [ on |-> "User", name |-> "avatar",
        type |-> [named |-> "String", list |-> FALSE, nonNull |-> TRUE, itemNonNull |-> FALSE],
        cacheControl |-> [maxAge |-> {}, scope |-> {}, inheritMaxAge |-> {}] ],
      [ on |-> "User", name |-> "createdAt",
        type |-> [named |-> "String", list |-> FALSE, nonNull |-> TRUE, itemNonNull |-> FALSE],
        cacheControl |-> [maxAge |-> {}, scope |-> {}, inheritMaxAge |-> {}] ],
      [ on |-> "User", name |-> "friendship",
        type |-> [named |-> "Friendship", list |-> FALSE, nonNull |-> FALSE, itemNonNull |-> FALSE],
        cacheControl |-> [maxAge |-> {}, scope |-> {}, inheritMaxAge |-> {TRUE}] ],
      [ on |-> "User", name |-> "notifications",
        type |-> [named |-> "NotificationConnection", list |-> FALSE, nonNull |-> FALSE, itemNonNull |-> FALSE],
        cacheControl |-> [maxAge |-> {60}, scope |-> {"PRIVATE"}, inheritMaxAge |-> {}] ],
      [ on |-> "User", name |-> "userId",
        type |-> [named |-> "String", list |-> FALSE, nonNull |-> TRUE, itemNonNull |-> FALSE],
        cacheControl |-> [maxAge |-> {}, scope |-> {}, inheritMaxAge |-> {}] ],
      [ on |-> "User", name |-> "username",
        type |-> [named |-> "String", list |-> FALSE, nonNull |-> TRUE, itemNonNull |-> FALSE],
        cacheControl |-> [maxAge |-> {}, scope |-> {}, inheritMaxAge |-> {}] ],
      [ on |-> "User", name |-> "wallet",
        type |-> [named |-> "Wallet", list |-> FALSE, nonNull |-> FALSE, itemNonNull |-> FALSE],
        cacheControl |-> [maxAge |-> {}, scope |-> {}, inheritMaxAge |-> {}] ],
      [ on |-> "User", name |-> "wallets",
        type |-> [named |-> "WalletConnection", list |-> FALSE, nonNull |-> FALSE, itemNonNull |-> FALSE],
        cacheControl |-> [maxAge |-> {60}, scope |-> {}, inheritMaxAge |-> {}] ] }

\* type Wallet (lines 853-894)
WalletFields ==
    {
      [ on |-> "Wallet", name |-> "id",
        type |-> [named |-> "ID", list |-> FALSE, nonNull |-> TRUE, itemNonNull |-> FALSE],
        cacheControl |-> [maxAge |-> {}, scope |-> {}, inheritMaxAge |-> {}] ],
      [ on |-> "Wallet", name |-> "address",
        type |-> [named |-> "String", list |-> FALSE, nonNull |-> TRUE, itemNonNull |-> FALSE],
        cacheControl |-> [maxAge |-> {}, scope |-> {}, inheritMaxAge |-> {}] ],
      [ on |-> "Wallet", name |-> "chainId",
        type |-> [named |-> "ChainID", list |-> FALSE, nonNull |-> TRUE, itemNonNull |-> FALSE],
        cacheControl |-> [maxAge |-> {}, scope |-> {}, inheritMaxAge |-> {}] ],
      [ on |-> "Wallet", name |-> "createdAt",
        type |-> [named |-> "String", list |-> FALSE, nonNull |-> TRUE, itemNonNull |-> FALSE],
        cacheControl |-> [maxAge |-> {}, scope |-> {}, inheritMaxAge |-> {}] ],
      [ on |-> "Wallet", name |-> "balances",
        type |-> [named |-> "Balances", list |-> FALSE, nonNull |-> FALSE, itemNonNull |-> FALSE],
        cacheControl |-> [maxAge |-> {60}, scope |-> {}, inheritMaxAge |-> {}] ],
      [ on |-> "Wallet", name |-> "isPrimary",
        type |-> [named |-> "Boolean", list |-> FALSE, nonNull |-> TRUE, itemNonNull |-> FALSE],
        cacheControl |-> [maxAge |-> {}, scope |-> {}, inheritMaxAge |-> {}] ],
      [ on |-> "Wallet", name |-> "nfts",
        type |-> [named |-> "NftConnection", list |-> FALSE, nonNull |-> FALSE, itemNonNull |-> FALSE],
        cacheControl |-> [maxAge |-> {60}, scope |-> {}, inheritMaxAge |-> {}] ],
      [ on |-> "Wallet", name |-> "transactions",
        type |-> [named |-> "TransactionConnection", list |-> FALSE, nonNull |-> FALSE, itemNonNull |-> FALSE],
        cacheControl |-> [maxAge |-> {30}, scope |-> {}, inheritMaxAge |-> {}] ] }

\* type WalletConnection (lines 899-902)
WalletConnectionFields ==
    {
      [ on |-> "WalletConnection", name |-> "edges",
        type |-> [named |-> "WalletEdge", list |-> TRUE, nonNull |-> TRUE, itemNonNull |-> TRUE],
        cacheControl |-> [maxAge |-> {}, scope |-> {}, inheritMaxAge |-> {}] ],
      [ on |-> "WalletConnection", name |-> "pageInfo",
        type |-> [named |-> "PageInfo", list |-> FALSE, nonNull |-> TRUE, itemNonNull |-> FALSE],
        cacheControl |-> [maxAge |-> {}, scope |-> {}, inheritMaxAge |-> {}] ] }

\* type WalletEdge with a nullable node
WalletEdgeFieldsNullableNode ==
    {
      [ on |-> "WalletEdge", name |-> "cursor",
        type |-> [named |-> "String", list |-> FALSE, nonNull |-> TRUE, itemNonNull |-> FALSE],
        cacheControl |-> [maxAge |-> {}, scope |-> {}, inheritMaxAge |-> {}] ],
      [ on |-> "WalletEdge", name |-> "node",
        type |-> [named |-> "Wallet", list |-> FALSE, nonNull |-> FALSE, itemNonNull |-> FALSE],
        cacheControl |-> [maxAge |-> {}, scope |-> {}, inheritMaxAge |-> {}] ] }

\* type WalletEdge (lines 907-910)
WalletEdgeFields ==
    {
      [ on |-> "WalletEdge", name |-> "cursor",
        type |-> [named |-> "String", list |-> FALSE, nonNull |-> TRUE, itemNonNull |-> FALSE],
        cacheControl |-> [maxAge |-> {}, scope |-> {}, inheritMaxAge |-> {}] ],
      [ on |-> "WalletEdge", name |-> "node",
        type |-> [named |-> "Wallet", list |-> FALSE, nonNull |-> TRUE, itemNonNull |-> FALSE],
        cacheControl |-> [maxAge |-> {}, scope |-> {}, inheritMaxAge |-> {}] ] }

\* the object types, with the interfaces each implements; stem and suffix
\* split the name at a trailing Connection or Edge
ObjectTypes ==
    {
      [ name |-> "Mutation", implements |-> {}, stem |-> "Mutation", suffix |-> "" ],
      [ name |-> "Query", implements |-> {}, stem |-> "Query", suffix |-> "" ],
      [ name |-> "PageInfo", implements |-> {}, stem |-> "PageInfo", suffix |-> "" ],
      [ name |-> "Balances", implements |-> {"Node"}, stem |-> "Balances", suffix |-> "" ],
      [ name |-> "BalanceAggregate", implements |-> {"Node"}, stem |-> "BalanceAggregate", suffix |-> "" ],
      [ name |-> "Collection", implements |-> {"Node"}, stem |-> "Collection", suffix |-> "" ],
      [ name |-> "Friend", implements |-> {"Node"}, stem |-> "Friend", suffix |-> "" ],
      [ name |-> "FriendRequest", implements |-> {"Node"}, stem |-> "FriendRequest", suffix |-> "" ],
      [ name |-> "Friendship", implements |-> {}, stem |-> "Friendship", suffix |-> "" ],
      [ name |-> "Listing", implements |-> {"Node"}, stem |-> "Listing", suffix |-> "" ],
      [ name |-> "MarketData", implements |-> {"Node"}, stem |-> "MarketData", suffix |-> "" ],
      [ name |-> "Nft", implements |-> {"Node"}, stem |-> "Nft", suffix |-> "" ],
      [ name |-> "NftAttribute", implements |-> {}, stem |-> "NftAttribute", suffix |-> "" ],
      [ name |-> "NftConnection", implements |-> {}, stem |-> "Nft", suffix |-> "Connection" ],
      [ name |-> "NftEdge", implements |-> {}, stem |-> "Nft", suffix |-> "Edge" ],
      [ name |-> "Notification", implements |-> {"Node"}, stem |-> "Notification", suffix |-> "" ],
      [ name |-> "NotificationApplicationData", implements |-> {"Node"}, stem |-> "NotificationApplicationData", suffix |-> "" ],
      [ name |-> "NotificationConnection", implements |-> {}, stem |-> "Notification", suffix |-> "Connection" ],
      [ name |-> "NotificationEdge", implements |-> {}, stem |-> "Notification", suffix |-> "Edge" ],
      [ name |-> "TokenBalance", implements |-> {"Node"}, stem |-> "TokenBalance", suffix |-> "" ],
      [ name |-> "TokenBalanceConnection", implements |-> {}, stem |-> "TokenBalance", suffix |-> "Connection" ],
      [ name |-> "TokenBalanceEdge", implements |-> {}, stem |-> "TokenBalance", suffix |-> "Edge" ],
      [ name |-> "TokenListEntry", implements |-> {"Node"}, stem |-> "TokenListEntry", suffix |-> "" ],
      [ name |-> "Transaction", implements |-> {"Node"}, stem |-> "Transaction", suffix |-> "" ],
      [ name |-> "TransactionConnection", implements |-> {}, stem |-> "Transaction", suffix |-> "Connection" ],
      [ name |-> "TransactionEdge", implements |-> {}, stem |-> "Transaction", suffix |-> "Edge" ],
      [ name |-> "User", implements |-> {"Node"}, stem |-> "User", suffix |-> "" ],
      [ name |-> "Wallet", implements |-> {"Node"}, stem |-> "Wallet", suffix |-> "" ],
      [ name |-> "WalletConnection", implements |-> {}, stem |-> "Wallet", suffix |-> "Connection" ],
      [ name |-> "WalletEdge", implements |-> {}, stem |-> "Wallet", suffix |-> "Edge" ] }

\* every field definition of the schema's object types
ObjectFieldDefinitions ==
    MutationFields
    \cup QueryFields
    \cup PageInfoFields
    \cup BalancesFields
    \cup BalanceAggregateFields
    \cup CollectionFields
    \cup FriendFields
    \cup FriendRequestFields
    \cup FriendshipFields
    \cup ListingFields
    \cup MarketDataFields
    \cup NftFields
    \cup NftAttributeFields
    \cup NftConnectionFields
    \cup NftEdgeFields
    \cup NotificationFields
    \cup NotificationApplicationDataFields
    \cup NotificationConnectionFields
    \cup NotificationEdgeFields
    \cup TokenBalanceFields
    \cup TokenBalanceConnectionFields
    \cup TokenBalanceEdgeFields
    \cup TokenListEntryFields
    \cup TransactionFields
    \cup TransactionConnectionFields
    \cup TransactionEdgeFields
    \cup UserFields
    \cup WalletFields
    \cup WalletConnectionFields
    \cup WalletEdgeFields

\* schema { mutation: Mutation  query: Query }
RootTypes == {"Query", "Mutation"}

FieldsOf(typeName) == {f \in ObjectFieldDefinitions : f.on = typeName}

(***************************************************************************)
(* Cache-control propagation                                               *)
(***************************************************************************)
\* the policy a root field is resolved under: there is no parent
NoParentPolicy == [maxAge |-> {}, scope |-> "PUBLIC", inheritMaxAge |-> FALSE]

\* effectiveCachePolicy with the scope inherited along with the maxAge
EffectiveCachePolicyScopeInherited(field, parentEffectivePolicy) ==
    LET own == field.cacheControl
        inherits == own.inheritMaxAge = {TRUE} /\ own.maxAge = {}
    IN  [ maxAge |-> IF inherits THEN parentEffectivePolicy.maxAge
                      ELSE own.maxAge,
          scope |-> IF own.scope = {"PRIVATE"} THEN "PRIVATE"
                    ELSE IF inherits THEN parentEffectivePolicy.scope
                    ELSE "PUBLIC",
          inheritMaxAge |-> own.inheritMaxAge = {TRUE} ]

\* effectiveCachePolicy(field, parentEffectivePolicy); maxAge {} is
\* "uncacheable"
EffectiveCachePolicy(field, parentEffectivePolicy) ==
    LET own == field.cacheControl
        inherits == own.inheritMaxAge = {TRUE} /\ own.maxAge = {}
    IN  [ maxAge |-> IF inherits THEN parentEffectivePolicy.maxAge
                      ELSE own.maxAge,
          scope |-> IF own.scope = {"PRIVATE"} THEN "PRIVATE" ELSE "PUBLIC",
          inheritMaxAge |-> own.inheritMaxAge = {TRUE} ]

Min(S) == CHOOSE x \in S : \A y \in S : x <= y

\* the response-level policy once one more field is touched: the minimum
\* maxAge (uncacheable below every number), and PRIVATE wins
Restrict(policy, fieldPolicy) ==
    [ touched |-> TRUE,
      maxAge |-> IF ~policy.touched THEN fieldPolicy.maxAge
                 ELSE IF policy.maxAge = {} \/ fieldPolicy.maxAge = {} THEN {}
                 ELSE {Min(policy.maxAge \cup fieldPolicy.maxAge)},
      scope |-> IF policy.scope = "PRIVATE" \/ fieldPolicy.scope = "PRIVATE"
                THEN "PRIVATE" ELSE "PUBLIC" ]

NoFieldsPolicy == [touched |-> FALSE, maxAge |-> {}, scope |-> "PUBLIC"]

CacheInit ==
    /\ path = <<>>
    /\ overall = NoFieldsPolicy
    /\ touchedScopes = {}

\* the type whose fields can be selected next
CurrentType ==
    IF path = <<>> THEN RootTypes ELSE {path[Len(path)].field.type.named}

\* a field of the current object is resolved
ResolveField ==
    \E t \in CurrentType : \E f \in FieldsOf(t) :
        LET parent == IF path = <<>> THEN NoParentPolicy
                      ELSE path[Len(path)].policy
            policy == EffectiveCachePolicy(f, parent)
        IN  /\ path' = Append(path, [field |-> f, policy |-> policy])
            /\ overall' = Restrict(overall, policy)
            /\ touchedScopes' = touchedScopes \cup {policy.scope}
            /\ UNCHANGED <<gateVars, page>>

\* the field on top is complete: resolution goes on with its siblings
CompleteField ==
    /\ path # <<>>
    /\ path' = SubSeq(path, 1, Len(path) - 1)
    /\ UNCHANGED <<overall, touchedScopes, gateVars, page>>

\* the response is serialized with the overall policy; the next request
\* starts afresh
SendResponse ==
    /\ path = <<>>
    /\ overall.touched
    /\ overall' = NoFieldsPolicy
    /\ touchedScopes' = {}
    /\ UNCHANGED <<path, gateVars, page>>

(***************************************************************************)
(* Connection protocol: paginate                                           *)
(***************************************************************************)
\* an argument that was not supplied, and a cursor that is null
None == [tag |-> "none"]

Some(v) == [tag |-> "some", v |-> v]

\* cursorOf: the cursor issued for an item, from its natural key
CursorOf(item) == [tag |-> "cursor", key |-> item]

\* decode: the position in items of the item the cursor was issued for;
\* 0 when the cursor resolves to no position of items
PositionOf(items, cursor) ==
    LET at == {i \in 1..Len(items) : CursorOf(items[i]) = cursor}
    IN  IF at = {} THEN 0 ELSE CHOOSE i \in at : TRUE

Edge(item) == [cursor |-> CursorOf(item), node |-> item]

\* PageInfo of the edges at positions lo..hi of items
PageInfoOf(items, lo, hi) ==
    IF lo > hi
    THEN [ hasNextPage |-> FALSE, hasPreviousPage |-> FALSE,
           startCursor |-> None, endCursor |-> None ]
    ELSE [ hasNextPage |-> hi < Len(items),
           hasPreviousPage |-> lo > 1,
           startCursor |-> IF lo > 1 THEN Some(CursorOf(items[lo])) ELSE None,
           endCursor |-> IF hi < Len(items) THEN Some(CursorOf(items[hi]))
                         ELSE None ]

\* the connection holding the items at positions lo..hi, in items' order
ConnectionOf(items, lo, hi) ==
    [ ok |-> TRUE,
      edges |-> [k \in 1..(IF lo > hi THEN 0 ELSE hi - lo + 1) |->
                    Edge(items[lo + k - 1])],
      pageInfo |-> PageInfoOf(items, lo, hi) ]

InvalidCursor == [ok |-> FALSE, error |-> "InvalidCursor"]

\* paginate with the window starting at the `after` item, not behind it
paginateAfterInclusive(items, after, before, first, last) ==
    LET afterPos == IF after = None THEN 0 ELSE PositionOf(items, after.v)
        beforePos == IF before = None THEN Len(items) + 1
                     ELSE PositionOf(items, before.v)
        lo0 == IF after = None THEN 1 ELSE afterPos
        hi0 == beforePos - 1
        hi1 == IF first # None /\ hi0 - lo0 + 1 > first.v
               THEN lo0 + first.v - 1 ELSE hi0
        lo1 == IF last # None /\ hi1 - lo0 + 1 > last.v
               THEN hi1 - last.v + 1 ELSE lo0
    IN  IF (after # None /\ afterPos = 0) \/ (before # None /\ beforePos = 0)
        THEN InvalidCursor
        ELSE ConnectionOf(items, lo1, hi1)

\* paginate(items, cursorOf, after?, before?, first?, last?)
paginate(items, after, before, first, last) ==
    LET afterPos == IF after = None THEN 0 ELSE PositionOf(items, after.v)
        beforePos == IF before = None THEN Len(items) + 1
                     ELSE PositionOf(items, before.v)
        \* the window strictly after `after` and strictly before `before`
        lo0 == afterPos + 1
        hi0 == beforePos - 1
        \* first caps the window from its start, last from its end
        hi1 == IF first # None /\ hi0 - lo0 + 1 > first.v
               THEN lo0 + first.v - 1 ELSE hi0
        lo1 == IF last # None /\ hi1 - lo0 + 1 > last.v
               THEN hi1 - last.v + 1 ELSE lo0
    IN  IF (after # None /\ afterPos = 0) \/ (before # None /\ beforePos = 0)
        THEN InvalidCursor
        ELSE ConnectionOf(items, lo1, hi1)

\* the natural keys of the items
Keys == 1..MaxItems

\* the item sequences drawn: every order of the keys 1..n
ItemSequences ==
    UNION { {q \in [1..n -> 1..n] : \A i, j \in 1..n : q[i] = q[j] => i = j}
            : n \in 0..MaxItems }

\* the cursors drawn: those of the keys, stale for a shorter sequence
Cursors == {None} \cup {Some(CursorOf(k)) : k \in Keys}

Caps == {None} \cup {Some(n) : n \in 0..MaxCap}

PageIdle == page = [state |-> "idle"]

\* a request as the caller hands it over
PageInit ==
    \E items \in ItemSequences, after \in Cursors, before \in Cursors,
       first \in Caps, last \in Caps :
        page = [ state |-> "called", items |-> items, after |-> after,
                 before |-> before, first |-> first, last |-> last ]

Paginate ==
    /\ page.state = "called"
    /\ page' = [ state |-> "returned", items |-> page.items,
                 after |-> page.after, before |-> page.before,
                 first |-> page.first, last |-> page.last,
                 result |-> paginate(page.items, page.after, page.before,
                                     page.first, page.last) ]
    /\ UNCHANGED <<gateVars, cacheVars>>

(***************************************************************************)
(* Specifications: the components share no state, so each runs alone       *)
(***************************************************************************)
Init == GatesInit /\ CacheInit /\ PageIdle

Next == CallFeatureGates

Spec == Init /\ [][Next]_vars

CacheNext == ResolveField \/ CompleteField \/ SendResponse

CacheSpec == Init /\ [][CacheNext]_vars

PaginateInit == GatesInit /\ CacheInit /\ PageInit

PaginateNext == Paginate

PaginateSpec == PaginateInit /\ [][PaginateNext]_vars


(***************************************************************************)
(* Feature gates: the claims                                               *)
(***************************************************************************)
\* userId is defined and is an element of dropzoneUsers
IsMember(c) ==
    /\ c.userId # Undefined
    /\ \E i \in 1..Len(c.dropzoneUsers) : c.dropzoneUsers[i] = c.userId.s

\* C1: for every userId (absent, or any string, the empty one included) and
\* every dropzoneUsers, DROPZONE_ENABLED is true iff userId is defined and is
\* a member of dropzoneUsers.
C1_DropzoneIffDefinedMember ==
    call.made => (call.flags.DROPZONE_ENABLED = Bool(TRUE) <=> IsMember(call))

StaticFlags(flags) ==
    [ STRIPE_ENABLED         |-> flags.STRIPE_ENABLED,
      PRIMARY_PUBKEY_ENABLED |-> flags.PRIMARY_PUBKEY_ENABLED,
      STICKER_ENABLED        |-> flags.STICKER_ENABLED,
      SWAP_FEES_ENABLED      |-> flags.SWAP_FEES_ENABLED,
      BARTER_ENABLED         |-> flags.BARTER_ENABLED ]

\* C2: two calls that differ in userId and/or dropzoneUsers agree on the five
\* flags other than DROPZONE_ENABLED, which are STRIPE_ENABLED = true,
\* PRIMARY_PUBKEY_ENABLED = true, STICKER_ENABLED = true,
\* SWAP_FEES_ENABLED = false and BARTER_ENABLED = false in every call.
C2_StaticFlagsIgnoreIdentity ==
    /\ call.made =>
          StaticFlags(call.flags) =
              [ STRIPE_ENABLED         |-> Bool(TRUE),
                PRIMARY_PUBKEY_ENABLED |-> Bool(TRUE),
                STICKER_ENABLED        |-> Bool(TRUE),
                SWAP_FEES_ENABLED      |-> Bool(FALSE),
                BARTER_ENABLED         |-> Bool(FALSE) ]
    /\ (call.made /\ prevCall.made) =>
          StaticFlags(call.flags) = StaticFlags(prevCall.flags)

\* two calls that differ in both arguments and in DROPZONE_ENABLED
C2_Witness ==
    /\ call.made /\ prevCall.made
    /\ call.userId # prevCall.userId
    /\ call.dropzoneUsers # prevCall.dropzoneUsers
    /\ call.flags.DROPZONE_ENABLED # prevCall.flags.DROPZONE_ENABLED

FeatureNames ==
    { "STRIPE_ENABLED", "PRIMARY_PUBKEY_ENABLED", "SWAP_FEES_ENABLED",
      "DROPZONE_ENABLED", "STICKER_ENABLED", "BARTER_ENABLED" }

\* C3: for every input the result has exactly the six feature keys and every
\* value is a boolean; no flag is missing or undefined.
C3_FlagSetTotalBoolean ==
    call.made =>
        /\ DOMAIN call.flags = FeatureNames
        /\ \A k \in FeatureNames : call.flags[k].tag = "boolean"

\* userId absent and the cohort empty; and a defined userId the cohort lacks
C3_Witness ==
    /\ call.made /\ prevCall.made
    /\ call.userId = Undefined /\ call.dropzoneUsers = <<>>
    /\ prevCall.userId = Str("") /\ prevCall.dropzoneUsers = <<"u1">>

(***************************************************************************)
(* Cache control: the claims                                               *)
(***************************************************************************)
\* the path's i-th entry is field `name` of type `on`
Is(i, on, name) ==
    /\ i \in 1..Len(path)
    /\ path[i].field.on = on
    /\ path[i].field.name = name

\* the path's i-th field declares inheritMaxAge: true and no maxAge
InheritsOnly(i) ==
    /\ path[i].field.cacheControl.inheritMaxAge = {TRUE}
    /\ path[i].field.cacheControl.maxAge = {}

\* C4: if at least one touched field has scope PRIVATE the response-level
\* scope is PRIVATE, whatever the scopes of the other touched fields; every
\* query that selects Query.user, User.notifications, Friendship.friends or
\* Friendship.requests yields a PRIVATE response.
C4_PrivateFieldMakesResponsePrivate ==
    /\ "PRIVATE" \in touchedScopes => overall.scope = "PRIVATE"
    /\ \A i \in 1..Len(path) :
          ( \/ Is(i, "Query", "user")
            \/ Is(i, "User", "notifications")
            \/ Is(i, "Friendship", "friends")
            \/ Is(i, "Friendship", "requests") )
          => /\ path[i].policy.scope = "PRIVATE"
             /\ "PRIVATE" \in touchedScopes
             /\ overall.scope = "PRIVATE"

\* Query.user (PRIVATE) and, below it, the PUBLIC User.id were touched: the
\* response is PRIVATE while the field resolved last is PUBLIC
C4_Witness ==
    /\ Is(1, "Query", "user") /\ Is(2, "User", "id")
    /\ path[1].policy.scope = "PRIVATE"
    /\ path[2].policy.scope = "PUBLIC"
    /\ touchedScopes = {"PUBLIC", "PRIVATE"}
    /\ overall.scope = "PRIVATE"

\* the effective maxAge values a parent may have
ParentMaxAges == {{}, {0}, {30}, {60}, {180}, {600}}

\* C5: a field that declares inheritMaxAge = true and no maxAge has its
\* parent field's effective maxAge, for every parent value; Balances.tokens
\* under Wallet.balances and User.friendship under Query.user have 60.
C5_InheritedMaxAgeIsParents ==
    /\ \A i \in 2..Len(path) :
          InheritsOnly(i) => path[i].policy.maxAge = path[i - 1].policy.maxAge
    /\ \A f \in ObjectFieldDefinitions : \A m \in ParentMaxAges :
          (f.cacheControl.inheritMaxAge = {TRUE} /\ f.cacheControl.maxAge = {})
          => EffectiveCachePolicy(f, [NoParentPolicy EXCEPT !.maxAge = m]).maxAge = m
    /\ \A i \in 2..Len(path) :
          (Is(i, "Balances", "tokens") /\ Is(i - 1, "Wallet", "balances"))
          => path[i].policy.maxAge = {60}
    /\ \A i \in 2..Len(path) :
          (Is(i, "User", "friendship") /\ Is(i - 1, "Query", "user"))
          => path[i].policy.maxAge = {60}

\* Balances.tokens has been resolved under Wallet.balances
C5_Witness ==
    \E i \in 2..Len(path) :
        /\ Is(i, "Balances", "tokens") /\ Is(i - 1, "Wallet", "balances")
        /\ InheritsOnly(i)
        /\ path[i - 1].policy.maxAge = {60}

\* C6: scope is never inherited: a field that declares no scope has effective
\* scope PUBLIC, also under a PRIVATE ancestor and also when it declares
\* inheritMaxAge = true; User.friendship under Query.user (PRIVATE) is PUBLIC
\* and has maxAge 60.
C6_ScopeNotInherited ==
    /\ \A i \in 1..Len(path) :
          path[i].field.cacheControl.scope = {} => path[i].policy.scope = "PUBLIC"
    /\ \A i \in 2..Len(path) :
          (Is(i, "User", "friendship") /\ Is(i - 1, "Query", "user"))
          => /\ path[i - 1].policy.scope = "PRIVATE"
             /\ path[i].field.cacheControl =
                    [maxAge |-> {}, scope |-> {}, inheritMaxAge |-> {TRUE}]
             /\ path[i].policy.scope = "PUBLIC"
             /\ path[i].policy.maxAge = {60}

\* User.friendship has been resolved under the PRIVATE Query.user
C6_Witness ==
    /\ Is(1, "Query", "user") /\ Is(2, "User", "friendship")
    /\ path[1].policy.scope = "PRIVATE"
    /\ InheritsOnly(2)

\* the nearest entry above i whose field declares a maxAge (0 when none)
NearestDeclared(i) ==
    LET above == {j \in 1..(i - 1) : path[j].field.cacheControl.maxAge # {}}
    IN  IF above = {} THEN 0 ELSE CHOOSE j \in above : \A k \in above : k <= j

\* C7: a field with inheritMaxAge = true and no maxAge has the effective
\* maxAge of its nearest ancestor field that declared one, also across
\* fields that carry no directive: Nft.attributes and Nft.collection under
\* Wallet.nfts -> NftConnection.edges -> NftEdge.node have maxAge 60.
C7_InheritsFromNearestDeclaringAncestor ==
    /\ \A i \in 2..Len(path) :
          (InheritsOnly(i) /\ NearestDeclared(i) # 0)
          => path[i].policy.maxAge = path[NearestDeclared(i)].policy.maxAge
    /\ \A i \in 4..Len(path) :
          ( /\ Is(i, "Nft", "attributes") \/ Is(i, "Nft", "collection")
            /\ Is(i - 1, "NftEdge", "node")
            /\ Is(i - 2, "NftConnection", "edges")
            /\ Is(i - 3, "Wallet", "nfts") )
          => path[i].policy.maxAge = {60}

(***************************************************************************)
(* Schema shape: the claims                                                *)
(***************************************************************************)
Declares(typeName, fieldName, type) ==
    \E f \in FieldsOf(typeName) : f.name = fieldName /\ f.type = type

NonNull(typeName) ==
    [named |-> typeName, list |-> FALSE, nonNull |-> TRUE, itemNonNull |-> FALSE]

NonNullListOfNonNull(typeName) ==
    [named |-> typeName, list |-> TRUE, nonNull |-> TRUE, itemNonNull |-> TRUE]

\* C8: every object type that implements Node declares the field id: ID!.
C8_NodeTypesDeclareId ==
    /\ NodeFields = {[ on |-> "Node", name |-> "id", type |-> NonNull("ID"),
                       cacheControl |-> [maxAge |-> {}, scope |-> {},
                                         inheritMaxAge |-> {}] ]}
    /\ \A t \in ObjectTypes :
          "Node" \in t.implements => Declares(t.name, "id", NonNull("ID"))
    /\ \A i \in 1..Len(path) : \A t \in ObjectTypes :
          (t.name = path[i].field.type.named /\ "Node" \in t.implements)
          => Declares(t.name, "id", NonNull("ID"))

\* the id of a Node-implementing object has been resolved
C8_Witness ==
    /\ Len(path) >= 2
    /\ Is(Len(path), "NotificationApplicationData", "id")
    /\ path[Len(path)].field.type = NonNull("ID")
    /\ \E t \in ObjectTypes :
          t.name = "NotificationApplicationData" /\ "Node" \in t.implements

PaginatedEntities == {"TokenBalance", "Nft", "Transaction", "Notification", "Wallet"}

\* C9: every type whose name ends in Connection declares
\* edges: [<X>Edge!]! and pageInfo: PageInfo!, and every type whose name ends
\* in Edge declares cursor: String! and a non-null node of the entity type;
\* so for TokenBalance, Nft, Transaction, Notification and Wallet.
C9_ConnectionAndEdgeShape ==
    /\ \A t \in ObjectTypes : t.name = t.stem \o t.suffix
    /\ \A t \in ObjectTypes :
          t.suffix = "Connection"
          => /\ Declares(t.name, "edges", NonNullListOfNonNull(t.stem \o "Edge"))
             /\ Declares(t.name, "pageInfo", NonNull("PageInfo"))
    /\ \A t \in ObjectTypes :
          t.suffix = "Edge"
          => /\ Declares(t.name, "cursor", NonNull("String"))
             /\ Declares(t.name, "node", NonNull(t.stem))
    /\ \A x \in PaginatedEntities :
          /\ \E t \in ObjectTypes : t.suffix = "Connection" /\ t.stem = x
          /\ \E t \in ObjectTypes : t.suffix = "Edge" /\ t.stem = x
    /\ \A i \in 2..Len(path) :
          Is(i, path[i - 1].field.type.named, "node")
          => /\ path[i - 1].field.name = "edges"
             /\ path[i - 1].field.type.named = path[i].field.type.named \o "Edge"
             /\ path[i].field.type.nonNull

\* a connection has been walked down to a node: edges, then node
C9_Witness ==
    \E i \in 3..Len(path) :
        /\ Is(i - 2, "User", "wallets")
        /\ Is(i - 1, "WalletConnection", "edges")
        /\ Is(i, "WalletEdge", "node")
        /\ path[i].field.type = NonNull("Wallet")

(***************************************************************************)
(* Connection protocol: the claims                                         *)
(***************************************************************************)
\* paginate has returned for a call with after = the cursor of the item at
\* position i, first = n, and neither before nor last
AfterFirstCall(i, n) ==
    /\ page.state = "returned"
    /\ i \in 1..Len(page.items)
    /\ page.after = Some(CursorOf(page.items[i]))
    /\ page.first = Some(n)
    /\ page.before = None
    /\ page.last = None

Nodes(edges) == [k \in 1..Len(edges) |-> edges[k].node]

MinOf(a, b) == IF a <= b THEN a ELSE b

\* the edges are the items behind position i, at most n, in items' order
ReturnsItemsBehind(i, n) ==
    /\ page.result.ok
    /\ Nodes(page.result.edges) =
           SubSeq(page.items, i + 1, MinOf(i + n, Len(page.items)))

\* the 5-item case: after item[2] (the third), first = 2 gives items[3..4]
FiveItemCase ==
    (AfterFirstCall(3, 2) /\ Len(page.items) = 5)
    => /\ page.result.ok
       /\ Nodes(page.result.edges) = <<page.items[4], page.items[5]>>
       /\ page.result.pageInfo.hasNextPage = FALSE
       /\ page.result.pageInfo.hasPreviousPage = TRUE

=============================================================================
